---- MODULE Spec2Model ----
(***************************************************************************)
(* soopervisor/abc.py: AbstractConfig (load_env_from_config,               *)
(* _write_hints_if_needed, hints), AbstractDockerConfig and                *)
(* AbstractExporter (__init__, add, export).                               *)
(*                                                                         *)
(* Python values are records [t, s, l]: None, a str or a list of str.      *)
(* A dict is a sequence of <<key, value>> pairs with distinct keys, in     *)
(* insertion order.  The text of a config file is a sequence of lines      *)
(* groups: a blank line, or the YAML block of one top-level section.       *)
(***************************************************************************)
EXTENDS Naturals, Sequences, FiniteSets, TLC

VARIABLES backend, files, entries, exporter, last, calls, addCalls, procs

vars == <<backend, files, entries, exporter, last, calls, addCalls, procs>>

\* Number of top-level calls (classmethods, constructor, add, export) in a run.
MaxCalls == 3

---------------------------------------------------------------------------
\* Python values

None == [t |-> "none", s |-> "", l |-> <<>>]

Str(x) == [t |-> "str", s |-> x, l |-> <<>>]

List(xs) == [t |-> "list", s |-> "", l |-> xs]

\* bool(v): None, '' and [] are falsy
Truthy(v) == (v.t = "str" /\ v.s # "") \/ (v.t = "list" /\ v.l # <<>>)

\* dicts
Keys(d) == {d[i][1] : i \in DOMAIN d}

Get(d, k) == d[CHOOSE i \in DOMAIN d : d[i][1] = k][2]

\* d[k] = v
Put(d, k, v) ==
    IF k \in Keys(d)
    THEN [i \in DOMAIN d |-> IF d[i][1] = k THEN <<k, v>> ELSE d[i]]
    ELSE Append(d, <<k, v>>)

\* del d[k]
Del(d, k) == SelectSeq(d, LAMBDA p : p[1] # k)

\* {**a, **b}
RECURSIVE Merge(_, _)
Merge(a, b) == IF b = <<>> THEN a ELSE Merge(Put(a, b[1][1], b[1][2]), Tail(b))

---------------------------------------------------------------------------
\* The world outside the module: names, paths, concrete backends

EnvNames == {"prod", "dev"}

\* "soopervisor.yaml" is the file the command line passes; "other.yaml" is
\* any other path a caller of the classmethods may pass.
Paths == {"soopervisor.yaml", "other.yaml"}

ConfigClasses == {"AbstractConfig", "AbstractDockerConfig"}

\* get_backend_value() is abstract: a concrete subclass of each schema class
\* fixes its identifier.
get_backend_value(cls) == IF cls = "AbstractDockerConfig" THEN "docker" ELSE "base"

\* The declared fields of the pydantic model, in declaration order.
Fields(cls) ==
    IF cls = "AbstractDockerConfig"
    THEN <<"preset", "include", "exclude", "repository">>
    ELSE <<"preset">>

\* Optional[str] takes None or a str, Optional[List[str]] None or a list.
FieldTypes(name) ==
    IF name \in {"include", "exclude"} THEN {"none", "list"} ELSE {"none", "str"}

_hints(cls) ==
    IF cls = "AbstractDockerConfig"
    THEN << <<"repository", Str("your-repository/name")>> >>
    ELSE <<>>

hints(cls) == Put(_hints(cls), "backend", Str(get_backend_value(cls)))

---------------------------------------------------------------------------
\* The YAML text of a config file

\* A line group of the text: the block of one top-level key, or a blank line.
Blank == [name |-> "", section |-> [mapping |-> FALSE, items |-> <<>>]]

\* safe_dump writes the keys of a mapping in sorted order.
SortedKeys == <<"backend", "exclude", "include", "preset", "repository", "verbose">>

SortKeys(d) ==
    LET ks == SelectSeq(SortedKeys, LAMBDA k : k \in Keys(d))
    IN  [i \in DOMAIN ks |-> <<ks[i], Get(d, ks[i])>>]

\* yaml.safe_dump({env_name: data}, default_flow_style=None)
yaml_safe_dump(env_name, data) ==
    [name |-> env_name, section |-> [mapping |-> TRUE, items |-> SortKeys(data)]]

\* yaml.safe_load(text): the top-level mapping, a dict name -> section; a
\* repeated key keeps its first position and takes the last value.
RECURSIVE yaml_safe_load(_)
yaml_safe_load(text) ==
    IF text = <<>> THEN <<>>
    ELSE LET n == Len(text)
             rest == yaml_safe_load(SubSeq(text, 1, n - 1))
         IN  IF text[n] = Blank THEN rest
             ELSE Put(rest, text[n].name, text[n].section)

\* soopervisor._io.read_yaml_mapping(path): the mapping the file holds; a
\* file that is absent or holds no mapping is an error.
read_yaml_mapping(f, path) ==
    IF ~f[path].exists
    THEN [err |-> "FileNotFoundError", data |-> <<>>]
    ELSE LET loaded == yaml_safe_load(f[path].text)
         IN  IF loaded = <<>>
             THEN [err |-> "NotAMapping", data |-> <<>>]
             ELSE [err |-> "", data |-> loaded]

\* The outcomes of read_yaml_mapping() called without its path: the call
\* raises for the missing argument (""), or reads the path the function
\* falls back to.
NoArgReads == {"", "soopervisor.yaml"}

---------------------------------------------------------------------------
\* AbstractConfig._write_hints_if_needed

\* (the check of line 118 dropped: the section is always written)
SectionMissingAlways(env_name, env_names) == TRUE

\* line 118: env_name not in env_names
SectionMissing(env_name, env_names) == env_name \notin env_names

\* lines 98-105: the text of the new section
default_data(cls, env_name, preset, defaults) ==
    LET merged == Merge(hints(cls), defaults)
        data == IF Truthy(preset) THEN Put(merged, "preset", preset) ELSE merged
    IN  yaml_safe_dump(env_name, data)

\* (line 121 writing the new section alone, as line 109 does)
AppendSectionOverwrites(content, block) == <<block>>

\* line 121: content + f'\n{default_data}\n'
AppendSection(content, block) == content \o <<Blank, block, Blank>>

\* The error the call raises ("" when it returns) and the files after it.
_write_hints_if_needed(f, cls, path_to_config, env_name, preset, defaults) ==
    LET block == default_data(cls, env_name, preset, defaults)
    IN  IF ~f[path_to_config].exists
        THEN [err |-> "",
              files |-> [f EXCEPT ![path_to_config] =
                            [exists |-> TRUE, text |-> <<block>>]]]
        ELSE LET content == f[path_to_config].text
                 read == read_yaml_mapping(f, path_to_config)
                 env_names == Keys(read.data)
             IN  IF read.err # ""
                 THEN [err |-> read.err, files |-> f]
                 ELSE IF SectionMissing(env_name, env_names)
                 THEN [err |-> "",
                       files |-> [f EXCEPT ![path_to_config].text =
                                     AppendSection(content, block)]]
                 ELSE [err |-> "", files |-> f]

---------------------------------------------------------------------------
\* AbstractConfig.load_env_from_config

\* No instance is returned.
NoInstance == <<>>

\* extra = 'forbid': the keys that are no declared field
ExtraKeys(cls, kwargs) == Keys(kwargs) \ {Fields(cls)[i] : i \in DOMAIN Fields(cls)}

\* the declared keys whose value has not the declared type
IllTyped(cls, kwargs) ==
    {k \in Keys(kwargs) \ ExtraKeys(cls, kwargs) : Get(kwargs, k).t \notin FieldTypes(k)}

\* cls(**kwargs): every declared field, None where kwargs does not give it
Instance(cls, kwargs) ==
    [i \in DOMAIN Fields(cls) |->
        <<Fields(cls)[i],
          IF Fields(cls)[i] \in Keys(kwargs) THEN Get(kwargs, Fields(cls)[i]) ELSE None>>]

\* line 49: data = read_yaml_mapping()
ReadConfig(f, path_to_config, noArg) ==
    IF noArg = ""
    THEN [err |-> "TypeError: missing argument", data |-> <<>>]
    ELSE read_yaml_mapping(f, noArg)

\* line 67: actual != expected
BackendDiffers(actual, expected) == actual # Str(expected)

Raise(error, f) == [outcome |-> error, ret |-> NoInstance, files |-> f]

\* The errors load_env_from_config raises itself (lines 52-71) or lets through.
BackendErrors == {"Missing backend key", "Invalid backend key"}

LoadErrors ==
    BackendErrors \cup {"TypeError: not a dictionary", "ValidationError", "KeyError",
                        "FileNotFoundError", "NotAMapping", "TypeError: missing argument"}

\* lines 52-75: the checks on data[env_name] and the construction
CheckSection(cls, section, f1) ==
    IF ~section.mapping THEN Raise("TypeError: not a dictionary", f1)
    ELSE IF "backend" \notin Keys(section.items)
    THEN Raise("Missing backend key", f1)
    ELSE IF BackendDiffers(Get(section.items, "backend"), get_backend_value(cls))
    THEN Raise("Invalid backend key", f1)
    ELSE IF \/ ExtraKeys(cls, Del(section.items, "backend")) # {}
            \/ IllTyped(cls, Del(section.items, "backend")) # {}
    THEN Raise("ValidationError", f1)
    ELSE [outcome |-> "ok", ret |-> Instance(cls, Del(section.items, "backend")),
          files |-> f1]

\* lines 49-52: data[env_name] of the mapping read
CheckRead(cls, env_name, read, f1) ==
    IF read.err # "" THEN Raise(read.err, f1)
    ELSE IF env_name \notin Keys(read.data) THEN Raise("KeyError", f1)
    ELSE CheckSection(cls, Get(read.data, env_name), f1)

\* lines 49-75, after the bootstrap step has returned `written`
LoadWritten(cls, path_to_config, env_name, noArg, written) ==
    IF written.err # "" THEN Raise(written.err, written.files)
    ELSE CheckRead(cls, env_name, ReadConfig(written.files, path_to_config, noArg),
                   written.files)

\* The outcome ("ok" or the error raised), the instance returned and the
\* files after the call.
load_env_from_config(f, cls, path_to_config, env_name, preset, defaults, noArg) ==
    LoadWritten(cls, path_to_config, env_name, noArg,
                _write_hints_if_needed(f, cls, path_to_config, env_name, preset, defaults))

---------------------------------------------------------------------------
\* AbstractExporter

\* Concrete exporters: the schema class they load and the presets they declare
\* (None, an empty list, or an ordered list).
ExporterClasses ==
    { [CONFIG_CLASS |-> "AbstractDockerConfig", PRESETS |-> None],
      [CONFIG_CLASS |-> "AbstractDockerConfig", PRESETS |-> List(<<>>)],
      [CONFIG_CLASS |-> "AbstractDockerConfig", PRESETS |-> List(<<"small", "large">>)],
      [CONFIG_CLASS |-> "AbstractConfig", PRESETS |-> List(<<"small", "large">>)] }

NoExporter ==
    [constructed |-> FALSE, class |-> [CONFIG_CLASS |-> "", PRESETS |-> None],
     _env_name |-> "", _cfg |-> NoInstance]

\* What the collaborators of __init__ do: check_lock_files_exist() passes or
\* raises, find_spec gives no spec (it raises) or a spec with its relative
\* product prefixes, and the backend's _validate passes or raises.
Worlds ==
    { [lockFiles |-> FALSE, found |-> TRUE, prod_prefix |-> <<>>, valid |-> TRUE],
      [lockFiles |-> TRUE, found |-> FALSE, prod_prefix |-> <<>>, valid |-> TRUE],
      [lockFiles |-> TRUE, found |-> TRUE, prod_prefix |-> <<>>, valid |-> FALSE],
      [lockFiles |-> TRUE, found |-> TRUE, prod_prefix |-> <<>>, valid |-> TRUE],
      [lockFiles |-> TRUE, found |-> TRUE, prod_prefix |-> <<"output">>, valid |-> TRUE] }

\* The arguments of export(): mode, until, skip_tests, ignore_git
NoArgs == [mode |-> "", until |-> None, skip_tests |-> FALSE, ignore_git |-> FALSE]

ExportArgs ==
    { [mode |-> "incremental", until |-> None, skip_tests |-> FALSE, ignore_git |-> FALSE],
      [mode |-> "force", until |-> Str("build"), skip_tests |-> TRUE, ignore_git |-> TRUE] }

\* One invocation of an abstract hook of the backend.
Hook(name, cfg, env_name, args) ==
    [name |-> name, cfg |-> cfg, env_name |-> env_name, args |-> args]

\* line 217: defaults = {} if not prod_prefix else dict(exclude=prod_prefix)
ExcludeDefaults(prod_prefix) ==
    IF prod_prefix = <<>> THEN <<>> ELSE << <<"exclude", List(prod_prefix)>> >>

\* __init__ aborted by an error: no exporter
Abort(error, f, hooks) ==
    [outcome |-> error, exporter |-> NoExporter, files |-> f, hooks |-> hooks]

\* lines 228-231: the rest of __init__ once the config is loaded
Validate(class, env_name, world, loaded) ==
    IF loaded.outcome # "ok" THEN Abort(loaded.outcome, loaded.files, <<>>)
    ELSE IF ~world.valid
    THEN Abort("_validate raised", loaded.files,
               <<Hook("_validate", loaded.ret, env_name, NoArgs)>>)
    ELSE [outcome |-> "ok",
          exporter |-> [constructed |-> TRUE, class |-> class,
                        _env_name |-> env_name, _cfg |-> loaded.ret],
          files |-> loaded.files,
          hooks |-> <<Hook("_validate", loaded.ret, env_name, NoArgs)>>]

\* (the config loaded before the project is validated, lines 204 and 221
\* swapped)
__init__LoadsFirst(f, class, path_to_config, env_name, preset, world, noArg) ==
    IF ~world.found THEN Abort("find_spec raised", f, <<>>)
    ELSE IF ~world.lockFiles
    THEN Abort("validate raised",
               load_env_from_config(f, class.CONFIG_CLASS, path_to_config, env_name,
                                    preset, ExcludeDefaults(world.prod_prefix),
                                    noArg).files,
               <<>>)
    ELSE Validate(class, env_name, world,
                  load_env_from_config(f, class.CONFIG_CLASS, path_to_config, env_name,
                                       preset, ExcludeDefaults(world.prod_prefix), noArg))

\* __init__: the outcome, the exporter built (NoExporter when it raises), the
\* files after it and the hooks it invoked.
__init__(f, class, path_to_config, env_name, preset, world, noArg) ==
    IF ~world.lockFiles THEN Abort("validate raised", f, <<>>)
    ELSE IF ~world.found THEN Abort("find_spec raised", f, <<>>)
    ELSE Validate(class, env_name, world,
                  load_env_from_config(f, class.CONFIG_CLASS, path_to_config, env_name,
                                       preset, ExcludeDefaults(world.prod_prefix), noArg))

\* line 245: self.PRESETS is None and self._cfg.preset
WithoutPresets(PRESETS, preset) == PRESETS = None /\ Truthy(preset)

\* (the membership test of line 252 dropped)
NotInPresetsNever(preset, PRESETS) == FALSE

\* line 252: self._cfg.preset not in self.PRESETS
NotInPresets(preset, PRESETS) ==
    ~(preset.t = "str" /\ \E i \in DOMAIN PRESETS.l : PRESETS.l[i] = preset.s)

\* (line 249 without its test: a preset that is set is replaced too)
DefaultPresetAlways(preset, PRESETS) == Str(PRESETS.l[1])

\* (line 250 taking the last declared preset)
DefaultPresetLast(preset, PRESETS) ==
    IF preset = None THEN Str(PRESETS.l[Len(PRESETS.l)]) ELSE preset

\* lines 249-250: the preset after the defaulting
DefaultPreset(preset, PRESETS) == IF preset = None THEN Str(PRESETS.l[1]) ELSE preset

\* (line 259 as mkdir(exist_ok=True) would have it: a directory is let through)
ExistsFileOnly(entry) == entry = "file"

\* line 259: path.exists()
Exists(entry) == entry # "none"

\* (line 262 with the kinds the wrong way round)
KindSwapped(entry) == IF entry = "file" THEN "directory" ELSE "file"

\* line 262
Kind(entry) == IF entry = "file" THEN "file" ELSE "directory"

\* add(): the outcome, the arguments of the error raised, the exporter and
\* the directory entries after it, and the hooks it invoked.
add(x, ents, addReturns) ==
    LET PRESETS == x.class.PRESETS
        name == Str(get_backend_value(x.class.CONFIG_CLASS))
        preset == Get(x._cfg, "preset")
        preset1 == IF Truthy(PRESETS) THEN DefaultPreset(preset, PRESETS) ELSE preset
        x1 == [x EXCEPT !._cfg = Put(x._cfg, "preset", preset1)]
        hook == Hook("_add", x1._cfg, x1._env_name, NoArgs)
    IN  IF WithoutPresets(PRESETS, preset)
        THEN [outcome |-> "BackendWithoutPresetsError", error |-> <<name>>,
              exporter |-> x, entries |-> ents, hooks |-> <<>>]
        ELSE IF Truthy(PRESETS) /\ NotInPresets(preset1, PRESETS)
        THEN [outcome |-> "InvalidPresetForBackendError",
              error |-> <<name, preset1, PRESETS>>,
              exporter |-> x1, entries |-> ents, hooks |-> <<>>]
        ELSE IF Exists(ents[x1._env_name])
        THEN [outcome |-> "FileExistsError",
              error |-> <<Str(Kind(ents[x1._env_name])), Str(x1._env_name)>>,
              exporter |-> x1, entries |-> ents, hooks |-> <<>>]
        ELSE [outcome |-> IF addReturns THEN "ok" ELSE "_add raised",
              error |-> <<>>,
              exporter |-> x1,
              entries |-> [ents EXCEPT ![x1._env_name] = "directory"],
              hooks |-> <<hook>>]

\* What the backend's _export does: it raises, or returns a value.
ExportResults ==
    { [raised |-> TRUE, value |-> None],
      [raised |-> FALSE, value |-> None],
      [raised |-> FALSE, value |-> Str("image")] }

\* (export() forwarding mode and until alone: skip_tests and ignore_git keep
\* their defaults)
exportDropsFlags(x, args, result) ==
    [outcome |-> IF result.raised THEN "_export raised" ELSE "ok",
     result |-> result.value, exporter |-> x,
     hooks |-> <<Hook("_export", x._cfg, x._env_name,
                      [args EXCEPT !.skip_tests = FALSE, !.ignore_git = FALSE])>>]

\* (export() defaulting the preset as add() does, lines 248-250)
exportDefaultsPreset(x, args, result) ==
    [outcome |-> IF result.raised THEN "_export raised" ELSE "ok",
     result |-> result.value,
     exporter |-> IF Truthy(x.class.PRESETS) /\ Get(x._cfg, "preset") = None
                  THEN [x EXCEPT !._cfg = Put(x._cfg, "preset", Str(x.class.PRESETS.l[1]))]
                  ELSE x,
     hooks |-> <<Hook("_export", x._cfg, x._env_name, args)>>]

\* export(): delegates to _export; the outcome, the value returned, the
\* exporter after it and the hook it invoked.
export(x, args, result) ==
    [outcome |-> IF result.raised THEN "_export raised" ELSE "ok",
     result |-> result.value, exporter |-> x,
     hooks |-> <<Hook("_export", x._cfg, x._env_name, args)>>]

---------------------------------------------------------------------------
\* State
\*   backend   the concrete exporter class in use (its CONFIG_CLASS, PRESETS)
\*   files     path -> [exists, text]: the config files
\*   entries   name -> "none" | "file" | "directory": what Path(env_name) is
\*   exporter  the exporter object the last successful construction built
\*   last      the last call: its arguments, its outcome ("ok" or the error),
\*             whether it wrote a config file, the instance it returned, the
\*             hooks it invoked and the arguments of the error it raised
\*   calls     the number of calls made
\*   addCalls  the number of times the backend's _add has been invoked
\*   procs     the concurrent invocations of _write_hints_if_needed: where
\*             each is and what it has read

Absent == [exists |-> FALSE, text |-> <<>>]

Section(items) == [mapping |-> TRUE, items |-> items]

\* Sections a user may have written by hand.
InitSections ==
    { Section(<< <<"repository", Str("org/image")>>, <<"backend", Str("docker")>> >>),
      Section(<< <<"backend", Str("docker")>>, <<"preset", Str("huge")>> >>),
      Section(<< <<"backend", Str("docker")>>, <<"verbose", Str("yes")>> >>),
      Section(<< <<"backend", Str("docker")>>, <<"include", Str("src")>> >>),
      Section(<< <<"backend", Str("wrong")>>, <<"verbose", Str("yes")>> >>),
      Section(<< <<"preset", Str("small")>> >>),
      [mapping |-> FALSE, items |-> <<>>] }

InitFiles ==
    {Absent} \cup
    { [exists |-> TRUE, text |-> << [name |-> e, section |-> sec] >>] :
        e \in EnvNames, sec \in InitSections }

\* The arguments preset and **defaults of the classmethods.
HintArgs ==
    { [preset |-> None, defaults |-> <<>>],
      [preset |-> Str("small"), defaults |-> << <<"exclude", List(<<"output">>)>> >>] }

PresetArgs == {None, Str("small")}

\* The command line's config file and the environment the exporter is for.
ConfigFile == "soopervisor.yaml"

TargetEnv == "prod"

NoCall ==
    [op |-> "", class |-> "", path |-> "", env |-> "", outcome |-> "",
     wrote |-> FALSE, ret |-> NoInstance, result |-> None, hooks |-> <<>>,
     error |-> <<>>]

\* The exporter's life: no file but the command line's, any backend.
Init ==
    /\ backend \in ExporterClasses
    /\ files \in {f \in [Paths -> InitFiles] : \A p \in Paths \ {ConfigFile} : f[p] = Absent}
    /\ entries \in {n \in [EnvNames -> {"none", "file", "directory"}] :
                       \A e \in EnvNames \ {TargetEnv} : n[e] = "none"}
    /\ exporter = NoExporter
    /\ last = NoCall
    /\ calls = 0
    /\ addCalls = 0
    /\ procs = <<>>

\* The classmethods called on their own: at most one config file to start with.
ConfigInit ==
    /\ backend \in {c \in ExporterClasses : c.PRESETS = List(<<"small", "large">>)}
    /\ files \in {f \in [Paths -> InitFiles] : \E p \in Paths : f[p] = Absent}
    /\ entries = [e \in EnvNames |-> "none"]
    /\ exporter = NoExporter
    /\ last = NoCall
    /\ calls = 0
    /\ addCalls = 0
    /\ procs = <<>>

\* cls._write_hints_if_needed(path_to_config, env_name, preset, **defaults)
WriteHints(path_to_config, env_name, preset, defaults) ==
    LET cls == backend.CONFIG_CLASS
        r == _write_hints_if_needed(files, cls, path_to_config, env_name, preset, defaults)
    IN  /\ calls < MaxCalls
        /\ calls' = calls + 1
        /\ files' = r.files
        /\ last' = [NoCall EXCEPT !.op = "_write_hints_if_needed", !.class = cls,
                                  !.path = path_to_config, !.env = env_name,
                                  !.outcome = IF r.err = "" THEN "ok" ELSE r.err,
                                  !.wrote = (r.files # files)]
        /\ UNCHANGED <<backend, entries, exporter, addCalls, procs>>

\* cls.load_env_from_config(path_to_config, env_name, preset, **defaults)
Load(path_to_config, env_name, preset, defaults, noArg) ==
    LET cls == backend.CONFIG_CLASS
        r == load_env_from_config(files, cls, path_to_config, env_name, preset,
                                  defaults, noArg)
    IN  /\ calls < MaxCalls
        /\ calls' = calls + 1
        /\ files' = r.files
        /\ last' = [NoCall EXCEPT !.op = "load_env_from_config", !.class = cls,
                                  !.path = path_to_config, !.env = env_name,
                                  !.outcome = r.outcome, !.ret = r.ret,
                                  !.wrote = (r.files # files)]
        /\ UNCHANGED <<backend, entries, exporter, addCalls, procs>>

\* backend(path_to_config, env_name, preset): AbstractExporter.__init__
Construct(preset, world, noArg) ==
    LET r == __init__(files, backend, ConfigFile, TargetEnv, preset, world, noArg)
    IN  /\ calls < MaxCalls
        /\ calls' = calls + 1
        /\ files' = r.files
        /\ exporter' = IF r.outcome = "ok" THEN r.exporter ELSE exporter
        /\ last' = [NoCall EXCEPT !.op = "__init__", !.class = backend.CONFIG_CLASS,
                                  !.path = ConfigFile, !.env = TargetEnv,
                                  !.outcome = r.outcome, !.ret = r.exporter._cfg,
                                  !.hooks = r.hooks, !.wrote = (r.files # files)]
        /\ UNCHANGED <<backend, entries, addCalls, procs>>

\* exporter.add()
Add(addReturns) ==
    LET r == add(exporter, entries, addReturns)
    IN  /\ exporter.constructed
        /\ calls < MaxCalls
        /\ calls' = calls + 1
        /\ exporter' = r.exporter
        /\ entries' = r.entries
        /\ last' = [NoCall EXCEPT !.op = "add", !.class = exporter.class.CONFIG_CLASS,
                                  !.env = exporter._env_name,
                                  !.outcome = r.outcome, !.hooks = r.hooks,
                                  !.error = r.error]
        /\ addCalls' = addCalls + Len(r.hooks)
        /\ UNCHANGED <<backend, files, procs>>

\* exporter.export(mode, until, skip_tests, ignore_git)
Export(args, result) ==
    LET r == export(exporter, args, result)
    IN  /\ exporter.constructed
        /\ calls < MaxCalls
        /\ calls' = calls + 1
        /\ exporter' = r.exporter
        /\ last' = [NoCall EXCEPT !.op = "export", !.class = exporter.class.CONFIG_CLASS,
                                  !.env = exporter._env_name,
                                  !.outcome = r.outcome, !.result = r.result,
                                  !.hooks = r.hooks]
        /\ UNCHANGED <<backend, files, entries, addCalls, procs>>

Next ==
    \/ \E preset \in PresetArgs, world \in Worlds, noArg \in NoArgReads :
          Construct(preset, world, noArg)
    \/ \E addReturns \in BOOLEAN : Add(addReturns)
    \/ \E args \in ExportArgs, result \in ExportResults : Export(args, result)

Spec == Init /\ [][Next]_vars

ConfigNext ==
    \/ \E p \in Paths, e \in EnvNames, a \in HintArgs :
          WriteHints(p, e, a.preset, a.defaults)
    \/ \E p \in Paths, e \in EnvNames, a \in HintArgs, noArg \in NoArgReads :
          Load(p, e, a.preset, a.defaults, noArg)

ConfigSpec == ConfigInit /\ [][ConfigNext]_vars

---------------------------------------------------------------------------
\* Concurrent invocations of _write_hints_if_needed on one file

\* How many invocations run at once, at most.
MaxInvocations == 3

\* (lines 114-115 the other way round: the section names are read before the
\* content)
NextStepNamesFirst(pc, exists, missing) ==
    CASE pc = "exists" -> IF exists THEN "read_names" ELSE "write_new"
      [] pc = "read_names" -> IF missing THEN "read_text" ELSE "done"
      [] pc = "read_text" -> "append"
      [] OTHER -> "done"

\* lines 108-121: the statement an invocation executes after the one at pc;
\* exists is what line 108 found, missing what line 118 finds.
NextStep(pc, exists, missing) ==
    CASE pc = "exists" -> IF exists THEN "read_text" ELSE "write_new"
      [] pc = "read_text" -> "read_names"
      [] pc = "read_names" -> IF missing THEN "append" ELSE "done"
      [] OTHER -> "done"

\* An invocation about to execute line 108, for env_name, called when the
\* file was as before.
Invocation(env_name, before) ==
    [pc |-> "exists", env_name |-> env_name, content |-> <<>>, env_names |-> {},
     wrote |-> FALSE, before |-> before]

\* The config file as the invocations find it: absent, or with the section of
\* another environment.
ConcurrentInitFiles ==
    { Absent,
      [exists |-> TRUE,
       text |-> << [name |-> "staging",
                    section |-> Section(<< <<"backend", Str("docker")>> >>)] >>] }

ConcurrentInit ==
    /\ backend \in {c \in ExporterClasses : c.PRESETS = None}
    /\ files \in {f \in [Paths -> ConcurrentInitFiles] :
                    \A p \in Paths \ {ConfigFile} : f[p] = Absent}
    /\ entries = [e \in EnvNames |-> "none"]
    /\ exporter = NoExporter
    /\ last = NoCall
    /\ calls = 0
    /\ addCalls = 0
    /\ \E n \in 2..MaxInvocations :
          procs \in [1..n -> {Invocation(e, files[ConfigFile]) : e \in EnvNames}]

\* line 108: if not Path(path_to_config).exists()
CheckExists(i) ==
    /\ i \in DOMAIN procs
    /\ procs[i].pc = "exists"
    /\ procs' = [procs EXCEPT ![i].pc =
                    NextStep("exists", files[ConfigFile].exists,
                             SectionMissing(procs[i].env_name, procs[i].env_names))]
    /\ UNCHANGED <<backend, files, entries, exporter, last, calls, addCalls>>

\* line 109: Path(path_to_config).write_text(default_data)
WriteNew(i) ==
    /\ i \in DOMAIN procs
    /\ procs[i].pc = "write_new"
    /\ files' = [files EXCEPT ![ConfigFile] =
                    [exists |-> TRUE,
                     text |-> <<default_data(backend.CONFIG_CLASS, procs[i].env_name,
                                             None, <<>>)>>]]
    /\ procs' = [procs EXCEPT ![i].pc = "done", ![i].wrote = TRUE]
    /\ UNCHANGED <<backend, entries, exporter, last, calls, addCalls>>

\* line 114: content = path.read_text()
ReadText(i) ==
    /\ i \in DOMAIN procs
    /\ procs[i].pc = "read_text"
    /\ procs' = [procs EXCEPT ![i].content = files[ConfigFile].text,
                              ![i].pc = NextStep("read_text", TRUE,
                                                 SectionMissing(procs[i].env_name,
                                                                procs[i].env_names))]
    /\ UNCHANGED <<backend, files, entries, exporter, last, calls, addCalls>>

\* line 115: env_names = list(read_yaml_mapping(path_to_config)), and the
\* test of line 118
ReadNames(i) ==
    /\ i \in DOMAIN procs
    /\ procs[i].pc = "read_names"
    /\ procs' = [procs EXCEPT ![i].env_names =
                                 Keys(read_yaml_mapping(files, ConfigFile).data),
                              ![i].pc = NextStep("read_names", TRUE,
                                   SectionMissing(procs[i].env_name,
                                       Keys(read_yaml_mapping(files, ConfigFile).data)))]
    /\ UNCHANGED <<backend, files, entries, exporter, last, calls, addCalls>>

\* line 121: path.write_text(content + f'\n{default_data}\n')
WriteAppended(i) ==
    /\ i \in DOMAIN procs
    /\ procs[i].pc = "append"
    /\ files' = [files EXCEPT ![ConfigFile].text =
                    AppendSection(procs[i].content,
                                  default_data(backend.CONFIG_CLASS, procs[i].env_name,
                                               None, <<>>))]
    /\ procs' = [procs EXCEPT ![i].pc = "done", ![i].wrote = TRUE]
    /\ UNCHANGED <<backend, entries, exporter, last, calls, addCalls>>

ConcurrentNext ==
    \/ \E i \in 1..MaxInvocations : CheckExists(i)
    \/ \E i \in 1..MaxInvocations : WriteNew(i)
    \/ \E i \in 1..MaxInvocations : ReadText(i)
    \/ \E i \in 1..MaxInvocations : ReadNames(i)
    \/ \E i \in 1..MaxInvocations : WriteAppended(i)

ConcurrentSpec == ConcurrentInit /\ [][ConcurrentNext]_vars

---------------------------------------------------------------------------
\* Properties

\* The top-level keys of a text, one for each block.
SectionNames(text) == {text[i].name : i \in DOMAIN text} \ {""}

\* The number of blocks of a text with the given name.
SectionCount(text, name) == Cardinality({i \in DOMAIN text : text[i].name = name})

IsPrefix(s, t) == Len(s) <= Len(t) /\ SubSeq(t, 1, Len(s)) = s

TextOf(file) == IF file.exists THEN file.text ELSE <<>>

BootstrapOps == {"_write_hints_if_needed", "load_env_from_config"}

\* C1 (idempotent bootstrap): when a call of _write_hints_if_needed has
\* written the section of an environment that had none, the next call of
\* _write_hints_if_needed for the same file and environment, whatever its
\* preset and overrides, writes nothing: the files are the same after it, and
\* the file holds exactly one section of that name.
C1_IdempotentBootstrap ==
    [][ ( /\ last.op = "_write_hints_if_needed" /\ last.wrote
          /\ last'.op = "_write_hints_if_needed"
          /\ last'.path = last.path /\ last'.env = last.env )
        => ( /\ files' = files
             /\ ~last'.wrote
             /\ SectionCount(files'[last'.path].text, last'.env) = 1 ) ]_vars

\* Two calls have been made; the first created the file with the section,
\* given a preset and overrides (the file is that section's text alone), and
\* the second, a call of _write_hints_if_needed for the same file and
\* environment, wrote nothing.
C1_Witness ==
    /\ calls = 2
    /\ last.op = "_write_hints_if_needed" /\ ~last.wrote
    /\ \E a \in HintArgs :
          /\ a.preset # None
          /\ files[last.path] =
                [exists |-> TRUE,
                 text |-> <<default_data(last.class, last.env, a.preset, a.defaults)>>]

\* C2 (append-only document): a call of load_env_from_config or of its
\* bootstrap step leaves every other file as it is; when the environment has a
\* section it leaves the file as it is; otherwise the file's previous text is
\* a prefix of the new one, which has one block more, the environment's.
C2_AppendOnly ==
    [][ last'.op \in BootstrapOps =>
        LET p == last'.path
            e == last'.env
            old == TextOf(files[p])
            new == TextOf(files'[p])
        IN  /\ \A q \in Paths \ {p} : files'[q] = files[q]
            /\ IF e \in SectionNames(old)
               THEN files' = files
               ELSE /\ IsPrefix(old, new)
                    /\ SectionNames(new) = SectionNames(old) \cup {e}
                    /\ \A n \in SectionNames(new) :
                          SectionCount(new, n) =
                             SectionCount(old, n) + (IF n = e THEN 1 ELSE 0) ]_vars

\* A load has appended the section of its environment after the section of
\* another environment, which is still the first block of the file.
C2_Witness ==
    /\ last.op = "load_env_from_config" /\ last.wrote
    /\ Len(files[last.path].text) > 1
    /\ files[last.path].text[1].name \notin {"", last.env}
    /\ files[last.path].text[1].section \in InitSections
    /\ SectionCount(files[last.path].text, last.env) = 1

\* The section a document maps a name to.
SectionOf(file, name) == Get(yaml_safe_load(file.text), name)

HasSection(file, name) == file.exists /\ name \in SectionNames(file.text)

\* A mapping with the backend of the class.
PassesGate(cls, section) ==
    /\ section.mapping
    /\ "backend" \in Keys(section.items)
    /\ Get(section.items, "backend") = Str(get_backend_value(cls))

WellTyped(cls, section) == IllTyped(cls, Del(section.items, "backend")) = {}

\* C3 (load reads the document at path_to_config): after a call of
\* load_env_from_config, when the environment's section in the file at
\* path_to_config is a mapping with the backend of the class and only declared
\* fields (holding values of the declared types), the call has returned an
\* instance whose fields are the section's, without the backend key.
C3_LoadReadsPathToConfig ==
    ( /\ last.op = "load_env_from_config"
      /\ HasSection(files[last.path], last.env) )
    => LET section == SectionOf(files[last.path], last.env)
           kwargs == Del(section.items, "backend")
       IN  ( /\ PassesGate(last.class, section)
             /\ ExtraKeys(last.class, kwargs) = {}
             /\ WellTyped(last.class, section) )
           => /\ last.outcome = "ok"
              /\ last.ret = Instance(last.class, kwargs)

\* C4 (backend gate): a call of load_env_from_config for an environment
\* whose section is a mapping without a backend key, or with another backend
\* than the class's, raises the missing-key, respectively the mismatch error,
\* returns no instance and leaves the files as they are.
C4_BackendGate ==
    [][ ( /\ last'.op = "load_env_from_config"
          /\ HasSection(files[last'.path], last'.env)
          /\ SectionOf(files[last'.path], last'.env).mapping
          /\ ~PassesGate(last'.class, SectionOf(files[last'.path], last'.env)) )
        => ( /\ last'.outcome =
                  (IF "backend" \in Keys(SectionOf(files[last'.path], last'.env).items)
                   THEN "Invalid backend key" ELSE "Missing backend key")
             /\ last'.ret = NoInstance
             /\ files' = files ) ]_vars

\* C5 (strict schema): after a call of load_env_from_config for a section
\* that passes the backend gate (with values of the declared types), the call
\* has succeeded exactly when every key but backend is a declared field of the
\* class, and backend is never counted as an unknown field.
C5_StrictSchema ==
    ( /\ last.op = "load_env_from_config"
      /\ HasSection(files[last.path], last.env)
      /\ PassesGate(last.class, SectionOf(files[last.path], last.env))
      /\ WellTyped(last.class, SectionOf(files[last.path], last.env)) )
    => LET kwargs == Del(SectionOf(files[last.path], last.env).items, "backend")
       IN  /\ "backend" \notin ExtraKeys(last.class, kwargs)
           /\ (last.outcome = "ok") <=> (ExtraKeys(last.class, kwargs) = {})

\* The end-to-end scenario's backend: Docker-like, no presets declared.
DockerNoPresets == backend = [CONFIG_CLASS |-> "AbstractDockerConfig", PRESETS |-> None]

\* The file the scenario's first construction leaves: one prod section with
\* backend and the repository hint, no preset.
FreshProd(file) ==
    /\ file.exists
    /\ SectionNames(file.text) = {TargetEnv}
    /\ SectionCount(file.text, TargetEnv) = 1
    /\ LET items == SectionOf(file, TargetEnv).items
       IN  /\ Keys(items) \in {{"backend", "repository"}, {"backend", "repository", "exclude"}}
           /\ Get(items, "backend") = Str("docker")
           /\ Get(items, "repository") = Str("your-repository/name")

\* A construction without preset whose collaborators all pass.
ConstructPassing ==
    \E world \in Worlds, noArg \in NoArgReads :
        /\ world.lockFiles /\ world.found /\ world.valid
        /\ Construct(None, world, noArg)

\* C6 (end-to-end scenario), for the Docker-like backend without presets:
\* constructing the exporter for prod when there is no config file succeeds
\* and leaves a file with the one section prod (backend, the repository hint,
\* no preset); add() then creates the directory prod and invokes _add once;
\* constructing the exporter again succeeds and leaves the file as it is.
C6_EndToEnd ==
    /\ [][ (DockerNoPresets /\ ~files[ConfigFile].exists /\ ConstructPassing)
           => (last'.outcome = "ok" /\ exporter'.constructed
               /\ FreshProd(files'[ConfigFile])) ]_vars
    /\ [][ ( /\ DockerNoPresets /\ FreshProd(files[ConfigFile])
             /\ exporter.constructed /\ entries[TargetEnv] = "none"
             /\ \E addReturns \in BOOLEAN : Add(addReturns) )
           => ( /\ entries'[TargetEnv] = "directory"
                /\ Len(last'.hooks) = 1 /\ last'.hooks[1].name = "_add" ) ]_vars
    /\ [][ (DockerNoPresets /\ FreshProd(files[ConfigFile]) /\ ConstructPassing)
           => (last'.outcome = "ok" /\ exporter'.constructed /\ files' = files) ]_vars

C8_PresetDefault ==
    [][ ( /\ \E addReturns \in BOOLEAN : Add(addReturns)
          /\ Truthy(exporter.class.PRESETS)
          /\ Get(exporter._cfg, "preset") = None )
        => ( /\ Get(exporter'._cfg, "preset") = Str(exporter.class.PRESETS.l[1])
             /\ \A i \in DOMAIN last'.hooks :
                   Get(last'.hooks[i].cfg, "preset") = Str(exporter.class.PRESETS.l[1]) ) ]_vars

\* add() has handed _add a config with the first declared preset, for an
\* environment whose section has no preset key.
C8_Witness ==
    /\ last.op = "add" /\ last.outcome = "ok"
    /\ exporter.class.PRESETS = List(<<"small", "large">>)
    /\ "preset" \notin Keys(SectionOf(files[ConfigFile], TargetEnv).items)
    /\ Len(last.hooks) = 1
    /\ Get(last.hooks[1].cfg, "preset") = Str("small")
    /\ Get(exporter._cfg, "preset") = Str("small")

\* The presets a class declares.
Declared(PRESETS) == {PRESETS.l[i] : i \in DOMAIN PRESETS.l}

\* C9 (preset rejection): add() on an exporter that declares a non-empty
\* PRESETS and whose config has a preset outside it raises the invalid-preset
\* error with the backend, the preset and the declared list, creates no
\* directory and does not invoke _add.
C9_PresetRejection ==
    [][ ( /\ \E addReturns \in BOOLEAN : Add(addReturns)
          /\ Truthy(exporter.class.PRESETS)
          /\ Get(exporter._cfg, "preset") # None
          /\ Get(exporter._cfg, "preset").s \notin Declared(exporter.class.PRESETS) )
        => ( /\ last'.outcome = "InvalidPresetForBackendError"
             /\ last'.error = <<Str(get_backend_value(exporter.class.CONFIG_CLASS)),
                                Get(exporter._cfg, "preset"), exporter.class.PRESETS>>
             /\ entries' = entries
             /\ last'.hooks = <<>> ) ]_vars

\* add() has rejected the preset huge while no entry of the environment's
\* name existed.
C9_Witness ==
    /\ last.op = "add" /\ last.outcome = "InvalidPresetForBackendError"
    /\ Get(exporter._cfg, "preset") = Str("huge")
    /\ entries[TargetEnv] = "none"

\* C10 (preset unsupported): add() on an exporter that declares no presets
\* (PRESETS None or an empty list) and whose config has a preset raises the
\* backend-without-presets error with the backend, creates no directory and
\* does not invoke _add.
C10_PresetUnsupported ==
    [][ ( /\ \E addReturns \in BOOLEAN : Add(addReturns)
          /\ exporter.class.PRESETS \in {None, List(<<>>)}
          /\ Get(exporter._cfg, "preset") # None )
        => ( /\ last'.outcome = "BackendWithoutPresetsError"
             /\ last'.error = <<Str(get_backend_value(exporter.class.CONFIG_CLASS))>>
             /\ entries' = entries
             /\ last'.hooks = <<>> ) ]_vars

\* add()'s two preset checks pass: the config has no preset or the exporter
\* declares presets, and a preset that is set is a declared one.
PresetChecksPass(x) ==
    /\ ~ (x.class.PRESETS = None /\ Truthy(Get(x._cfg, "preset")))
    /\ ( Truthy(x.class.PRESETS) /\ Get(x._cfg, "preset") # None )
         => Get(x._cfg, "preset").s \in Declared(x.class.PRESETS)

\* C11 (directory guard): when add()'s preset checks pass and an entry named
\* env_name exists, add() raises the existence error naming the entry's kind
\* (file for a file, directory for a directory) and the name, leaves the entry
\* as it is and does not invoke _add; when no entry exists, add() creates the
\* directory and invokes _add once with the config and env_name.
C11_DirectoryGuard ==
    [][ ( /\ \E addReturns \in BOOLEAN : Add(addReturns)
          /\ PresetChecksPass(exporter) )
        => IF entries[exporter._env_name] \in {"file", "directory"}
           THEN /\ last'.outcome = "FileExistsError"
                /\ last'.error = <<Str(entries[exporter._env_name]),
                                   Str(exporter._env_name)>>
                /\ entries' = entries
                /\ last'.hooks = <<>>
           ELSE /\ entries' = [entries EXCEPT ![exporter._env_name] = "directory"]
                /\ last'.hooks = <<Hook("_add", exporter'._cfg, exporter._env_name,
                                        NoArgs)>>
                /\ last'.outcome \in {"ok", "_add raised"} ]_vars

\* add() has refused a file of the environment's name with the kind file and
\* left it a file.
C11_Witness ==
    /\ last.op = "add" /\ last.outcome = "FileExistsError"
    /\ last.error = <<Str("file"), Str(TargetEnv)>>
    /\ entries[TargetEnv] = "file"
    /\ PresetChecksPass(exporter)

\* C12 (export has no guard): export(mode, until, skip_tests, ignore_git) on a
\* constructed exporter, whatever its preset, its PRESETS and the entries
\* there are, invokes _export exactly once with the current config, env_name
\* and the four arguments as given, returns what _export returns, and changes
\* neither the config, the config document nor the entries.
C12_ExportNoGuard ==
    [][ \A args \in ExportArgs, result \in ExportResults :
          Export(args, result)
          => ( /\ last'.hooks = <<Hook("_export", exporter._cfg, exporter._env_name,
                                       args)>>
               /\ ~ result.raised
                    => (last'.outcome = "ok" /\ last'.result = result.value)
               /\ exporter' = exporter
               /\ files' = files
               /\ entries' = entries ) ]_vars

\* export() has returned _export's value on an exporter whose add() would be
\* refused twice over: its preset is not a declared one and a file of the
\* environment's name exists.
C12_Witness ==
    /\ last.op = "export" /\ last.outcome = "ok" /\ last.result = Str("image")
    /\ last.hooks # <<>> /\ last.hooks[1].args.skip_tests
    /\ Get(exporter._cfg, "preset") = Str("huge")
    /\ entries[TargetEnv] = "file"

\* C13 (config lifecycle): over the add() and export() calls on a constructed
\* exporter the loaded config changes at most once: a call leaves the config
\* as it is, or it is an add() that sets preset from unset to PRESETS[0];
\* every other field and env_name keep their values, and export() never
\* changes the config. (A preset once set is never unset, so the change
\* happens at most once.)
C13_ConfigLifecycle ==
    [][ ( /\ exporter # NoExporter
          /\ last'.op \in {"add", "export"} )
        => ( /\ exporter' # NoExporter
             /\ exporter'._env_name = exporter._env_name
             /\ exporter'.class = exporter.class
             /\ \/ exporter'._cfg = exporter._cfg
                \/ /\ last'.op = "add"
                   /\ Get(exporter._cfg, "preset") = None
                   /\ Truthy(exporter.class.PRESETS)
                   /\ exporter'._cfg = Put(exporter._cfg, "preset",
                                           Str(exporter.class.PRESETS.l[1])) ) ]_vars

\* add() has defaulted the preset of a section that has none, and the export()
\* after it has left the config with that preset.
C13_Witness ==
    /\ last.op = "export" /\ calls = 3
    /\ HasSection(files[ConfigFile], TargetEnv)
    /\ "preset" \notin Keys(SectionOf(files[ConfigFile], TargetEnv).items)
    /\ Get(exporter._cfg, "preset") = Str("small")
    /\ last.hooks[1].cfg = exporter._cfg

\* C14 (a freshly bootstrapped section is loadable by the class that wrote
\* it): when load_env_from_config, for either schema class, any preset and
\* the overrides the constructor can pass (none, or exclude), writes the
\* section that was missing, the section has the backend of the class and
\* only keys the class accepts, and the same call returns an instance. Stated
\* for the calls whose read of line 49 reaches the config file.
C14_FreshSectionLoadable ==
    [][ \A h \in HintArgs, env_name \in EnvNames :
          ( /\ Load(ConfigFile, env_name, h.preset, h.defaults, ConfigFile)
            /\ ~ HasSection(files[ConfigFile], env_name) )
          => ( /\ HasSection(files'[ConfigFile], env_name)
               /\ PassesGate(backend.CONFIG_CLASS, SectionOf(files'[ConfigFile], env_name))
               /\ ExtraKeys(backend.CONFIG_CLASS,
                             Del(SectionOf(files'[ConfigFile], env_name).items,
                                 "backend")) = {}
               /\ last'.outcome = "ok"
               /\ last'.ret # NoInstance ) ]_vars

\* C15 (add is one-shot): once an add() has created the directory of the
\* environment and invoked _add (whether _add returned or raised), the
\* directory stays, every later add() raises the existence error of kind
\* directory without invoking _add, and so _add is invoked at most once.
C15_AddOneShot ==
    [][ /\ addCalls' <= 1
        /\ addCalls >= 1
             => ( /\ entries[TargetEnv] = "directory"
                  /\ entries'[TargetEnv] = "directory"
                  /\ addCalls' = addCalls
                  /\ (\E addReturns \in BOOLEAN : Add(addReturns))
                       => ( /\ last'.outcome = "FileExistsError"
                            /\ last'.error = <<Str("directory"), Str(TargetEnv)>>
                            /\ last'.hooks = <<>> ) ) ]_vars

\* The add() after the one that created the directory has been refused.
C15_Witness ==
    /\ addCalls = 1 /\ calls = 3
    /\ last.op = "add" /\ last.outcome = "FileExistsError"
    /\ last.error = <<Str("directory"), Str(TargetEnv)>>
    /\ entries[TargetEnv] = "directory"

\* The three guards of add().
AddGuardErrors ==
    {"BackendWithoutPresetsError", "InvalidPresetForBackendError", "FileExistsError"}

\* C16 (a failing add leaves the config as it was): an add() that raises on
\* one of its guards (preset unsupported, preset invalid, entry exists) leaves
\* the exporter's config exactly as it was before the call.
C16_FailingAddKeepsConfig ==
    [][ ( /\ \E addReturns \in BOOLEAN : Add(addReturns)
          /\ last'.outcome \in AddGuardErrors )
        => exporter'._cfg = exporter._cfg ]_vars

\* C16, amended: an add() that raises on a preset guard leaves the config as
\* it was; one that raises on the existence guard leaves every field other
\* than preset as it was, and preset either as it was or, when it was unset
\* and the exporter declares presets, set to PRESETS[0].
C16_FailingAddConfig ==
    [][ ( /\ \E addReturns \in BOOLEAN : Add(addReturns)
          /\ last'.outcome \in AddGuardErrors )
        => ( /\ exporter'._env_name = exporter._env_name
             /\ Del(exporter'._cfg, "preset") = Del(exporter._cfg, "preset")
             /\ \/ exporter'._cfg = exporter._cfg
                \/ /\ last'.outcome = "FileExistsError"
                   /\ Get(exporter._cfg, "preset") = None
                   /\ Truthy(exporter.class.PRESETS)
                   /\ Get(exporter'._cfg, "preset") = Str(exporter.class.PRESETS.l[1]) ) ]_vars

\* add() has been refused by the existence guard after it had defaulted the
\* preset of a config that had none.
C16_Witness ==
    /\ last.op = "add" /\ last.outcome = "FileExistsError"
    /\ HasSection(files[ConfigFile], TargetEnv)
    /\ "preset" \notin Keys(SectionOf(files[ConfigFile], TargetEnv).items)
    /\ Get(exporter._cfg, "preset") = Str("small")
    /\ addCalls = 0

\* The error of the first check a section fails, in the order: not a mapping,
\* no backend key, another backend, an undeclared key; "" when it passes the
\* four.
FirstFailingCheck(cls, section) ==
    IF ~ section.mapping THEN "TypeError: not a dictionary"
    ELSE IF "backend" \notin Keys(section.items) THEN "Missing backend key"
    ELSE IF Get(section.items, "backend") # Str(get_backend_value(cls))
    THEN "Invalid backend key"
    ELSE IF ExtraKeys(cls, Del(section.items, "backend")) # {}
    THEN "ValidationError"
    ELSE ""

\* C17 (check order of load_env_from_config): after a call whose
\* environment's section fails one of the checks not a mapping, no backend
\* key, backend differs, undeclared key, the call has raised the error of the
\* first of them that fails, in that order (a backend error before the schema
\* violation), and has returned no instance.
C17_CheckOrder ==
    ( /\ last.op = "load_env_from_config"
      /\ HasSection(files[last.path], last.env)
      /\ FirstFailingCheck(last.class, SectionOf(files[last.path], last.env)) # "" )
    => ( /\ last.outcome = FirstFailingCheck(last.class,
                                             SectionOf(files[last.path], last.env))
         /\ last.ret = NoInstance )

\* The file every invocation found when it was called.
FileBefore == procs[1].before

\* No name has two sections in the document.
NoDuplicateSections ==
    \A name \in SectionNames(files[ConfigFile].text) :
        SectionCount(files[ConfigFile].text, name) = 1

\* C18 (concurrent bootstraps): when two or more invocations of
\* _write_hints_if_needed interleave on one file at the existence check, the
\* read of the content, the read of the section names and the write, the
\* document never holds two sections of one name, and what the file held
\* before the invocations is a prefix of what it holds.
C18_ConcurrentBootstrap ==
    procs # <<>>
    => ( /\ NoDuplicateSections
         /\ IsPrefix(FileBefore.text, files[ConfigFile].text) )

\* C18, amended: what the file held before the invocations is always a prefix
\* of what it holds, and as long as only two invocations interleave the
\* document never holds two sections of one name.
C18_TwoInvocations ==
    procs # <<>>
    => ( /\ IsPrefix(FileBefore.text, files[ConfigFile].text)
         /\ FileBefore.exists => files[ConfigFile].exists
         /\ Len(procs) = 2 => NoDuplicateSections )

\* Two invocations for two environments have both written to a file that
\* existed, and the section of one of them is lost.
C18_Witness ==
    /\ Len(procs) = 2
    /\ FileBefore.exists
    /\ \A i \in DOMAIN procs : procs[i].pc = "done" /\ procs[i].wrote
    /\ procs[1].env_name # procs[2].env_name
    /\ procs[1].env_name \notin SectionNames(files[ConfigFile].text)
    /\ procs[2].env_name \in SectionNames(files[ConfigFile].text)

====
